---------------------------- MODULE Spec2Model ----------------------------
(***************************************************************************)
(* A model of CodeGraphContext's remote FalkorDB connection manager        *)
(* (core/database_falkordb_remote.py) and of its indexing handlers         *)
(* (tools/handlers/indexing_handlers.py).                                  *)
(*                                                                         *)
(* Part I models FalkorDBRemoteManager: the class attributes _driver,      *)
(* _graph and _lock, and the methods get_driver, close_driver, shutdown    *)
(* and is_connected, one action per read or write of a shared attribute,   *)
(* so that every interleaving of calling threads is a behaviour. Part II   *)
(* models the handlers, Part III the configuration read from the           *)
(* environment and the static methods validate_config and test_connection. *)
(***************************************************************************)
EXTENDS Integers, Sequences, FiniteSets, TLC

\* ------------------------------------------------------------------ bounds
NThreads == 2      \* calling threads of the connection manager
MaxCtor == 2       \* FalkorDB(**kwargs) constructor calls followed
MaxJobs == 2       \* jobs the job store hands out
MaxTokLen == 2     \* characters of a GIT_TOKEN value
MaxErrLen == 3     \* characters of a failed clone's captured stderr

\* ------------------------------------------------- Part I: the state space
None == 0          \* Python's None for _driver, _graph and the lock holder

Threads == 1..NThreads

VARIABLES
    driver,        \* FalkorDBRemoteManager._driver: None or a connection id
    graph,         \* FalkorDBRemoteManager._graph: None or a graph handle id
    lock,          \* FalkorDBRemoteManager._lock: None or the holding thread
    falkordb_installed, \* whether "from falkordb import FalkorDB" succeeds
    pc,            \* pc[t]: the line thread t is about to execute
    tmp,           \* tmp[t]: the value select_graph returned, not yet stored
    rec,           \* rec[t]: the call thread t is in, and its outcome
    ctorCalls,     \* call count of the FalkorDB constructor
    justClosed,    \* the call whose outcome was taken last was a close_driver
    undisturbed,   \* no close_driver has started and no attempt has failed
    environ,       \* os.environ: the FALKORDB_* variables
    self,          \* the attributes __init__ gives the manager (lines 55-61)
    ret,           \* the last call of a static method, and what it returned
    instance,      \* FalkorDBRemoteManager._instance: None or the manager
    atexit_hooks,  \* how often atexit.register(self.shutdown) has been called
    probeFailed    \* the graph whose probe raised in the is_connected call
                   \* whose outcome was taken last, None if there is none

connVars == <<driver, graph, lock, falkordb_installed, pc, tmp, rec,
              ctorCalls, justClosed, undisturbed, environ, self, ret,
              instance, atexit_hooks, probeFailed>>

\* Part II, the indexing handlers (declared here: one module, one state).
VARIABLES
    listed,        \* what list_repos_func() returns: the indexed repositories
    git_token,     \* os.environ.get("GIT_TOKEN"): a string, empty when unset
    jobs,          \* the job store: the number of jobs it has created
    dpc,           \* dpc[c]: the step caller c's handler call is at
    call,          \* call[c]: the handler called, its arguments and locals
    trace,         \* trace[c]: the collaborators the call has invoked, in order
    res,           \* res[c]: the mapping the call returned
    loop           \* loop[j]: how far the event loop is with job j's coroutine

dispVars == <<listed, git_token, jobs, dpc, call, trace, res, loop>>

vars == <<connVars, dispVars>>

\* What no method of the connection manager writes.
fixed == <<falkordb_installed, dispVars, environ, self, ret, instance,
           atexit_hooks>>

\* ------------------------------------------------------ the configuration
\* Texts are sequences of characters. An optional value is <<>> for None
\* (an unset variable) and <<v>> for the value v.
Nil == <<>>
Some(v) == <<v>>

\* os.getenv(key) and os.getenv(key, default).
getenv(key) == environ[key]
getenv_default(key, default) ==
    IF environ[key] = Nil THEN default ELSE environ[key][1]

\* "os.getenv(key) or None" (lines 57-58, 178-179): the empty string is
\* None as well.
or_None(value) == IF value = Some("") THEN Nil ELSE value

\* str.strip(): leading and trailing white space is dropped.
RECURSIVE strip(_)
strip(text) ==
    IF text = <<>> THEN text
    ELSE IF Head(text) = " " THEN strip(Tail(text))
    ELSE IF text[Len(text)] = " " THEN strip(SubSeq(text, 1, Len(text) - 1))
    ELSE text

\* int(text): white space around, an optional sign, then decimal digits;
\* anything else is a ValueError.
Digits == <<"0", "1", "2", "3", "4", "5", "6", "7", "8", "9">>

IsDigit(ch) == \E i \in 1..10 : Digits[i] = ch

DigitValue(ch) == (CHOOSE i \in 1..10 : Digits[i] = ch) - 1

RECURSIVE Magnitude(_)
Magnitude(ds) ==
    IF ds = <<>> THEN 0
    ELSE 10 * Magnitude(SubSeq(ds, 1, Len(ds) - 1)) + DigitValue(ds[Len(ds)])

Unsigned(text) ==
    IF text # <<>> /\ text[1] \in {"+", "-"} THEN Tail(text) ELSE text

is_int(text) ==
    LET body == Unsigned(strip(text))
    IN  body # <<>> /\ \A i \in DOMAIN body : IsDigit(body[i])

int(text) ==
    LET t == strip(text)
    IN  IF t[1] = "-" THEN 0 - Magnitude(Unsigned(t))
        ELSE Magnitude(Unsigned(t))

\* str(n) of an integer, as an f-string renders it.
RECURSIVE str_nat(_)
str_nat(n) ==
    IF n < 10 THEN <<Digits[n + 1]>>
    ELSE str_nat(n \div 10) \o <<Digits[(n % 10) + 1]>>

str(n) == IF n < 0 THEN <<"-">> \o str_nat(0 - n) ELSE str_nat(n)

\* A text compared as it is written.
lower_missing(text) == text

\* str.lower().
Uppers ==
    <<"A", "B", "C", "D", "E", "F", "G", "H", "I", "J", "K", "L", "M",
      "N", "O", "P", "Q", "R", "S", "T", "U", "V", "W", "X", "Y", "Z">>
Lowers ==
    <<"a", "b", "c", "d", "e", "f", "g", "h", "i", "j", "k", "l", "m",
      "n", "o", "p", "q", "r", "s", "t", "u", "v", "w", "x", "y", "z">>

lower(text) ==
    [i \in 1..Len(text) |->
        IF \E k \in 1..26 : Uppers[k] = text[i]
        THEN Lowers[CHOOSE k \in 1..26 : Uppers[k] = text[i]]
        ELSE text[i]]

\* Lines 59 and 180: os.getenv('FALKORDB_SSL', 'false').lower() in
\* ('true', '1', 'yes').
ssl_values == {<<"t", "r", "u", "e">>, <<"1">>, <<"y", "e", "s">>}

ssl_enabled ==
    lower(getenv_default("FALKORDB_SSL", <<"f", "a", "l", "s", "e">>))
        \in ssl_values

\* The default of FALKORDB_PORT (lines 56, 150, 177) and the port range of
\* validate_config (line 153).
DefaultPort == <<"6", "3", "7", "9">>
MinPort == 1
MaxPort == 65535

port_str == getenv_default("FALKORDB_PORT", DefaultPort)

\* Lines 51-61: what __init__ reads from the environment. int() of a port
\* that is not a number raises ValueError, and no manager is handed out.
Uninitialized ==
    [initialized |-> FALSE, host |-> "", port |-> 0, password |-> Nil,
     username |-> Nil, ssl |-> FALSE]

init ==
    IF ~is_int(port_str) THEN Uninitialized
    ELSE [initialized |-> TRUE,
          host |-> getenv_default("FALKORDB_HOST", "localhost"),
          port |-> int(port_str),
          password |-> or_None(getenv("FALKORDB_PASSWORD")),
          username |-> or_None(getenv("FALKORDB_USERNAME")),
          ssl |-> ssl_enabled]

\* A constructor call that always passes the ssl flag.
connect_kwargs_ssl_always(host, port, password, username, ssl) ==
    [k \in {"host", "port", "ssl"} |->
        CASE k = "host" -> host
          [] k = "port" -> port
          [] k = "ssl" -> ssl]

\* Lines 84-93 and 184-190: the keyword arguments of FalkorDB(**kwargs).
connect_kwargs(host, port, password, username, ssl) ==
    [k \in {"host", "port"}
           \cup (IF password # Nil /\ password # Some("")
                 THEN {"password"} ELSE {})
           \cup (IF username # Nil /\ username # Some("")
                 THEN {"username"} ELSE {})
           \cup (IF ssl THEN {"ssl"} ELSE {}) |->
        CASE k = "host" -> host
          [] k = "port" -> port
          [] k = "password" -> password[1]
          [] k = "username" -> username[1]
          [] k = "ssl" -> TRUE]

\* rec[t] when thread t is in no call.
NoCall ==
    [op |-> "none", out |-> "none", wrapped |-> None, cached |-> None,
     connected |-> FALSE, ctor |-> FALSE, probes |-> 0, kwargs |-> <<>>]

\* rec[t] at the start of a call of method m.
NewCall(m) ==
    [NoCall EXCEPT !.op = m, !.out = "running"]

\* The environment: each variable unset (Nil) or set to a text.
Environ(host, port, password, username, ssl) ==
    [FALKORDB_HOST |-> host, FALKORDB_PORT |-> port,
     FALKORDB_PASSWORD |-> password, FALKORDB_USERNAME |-> username,
     FALKORDB_SSL |-> ssl]

\* The environment of the concurrent runs.
DefaultEnviron ==
    Environ(Some("myhost"), Nil, Some("secret"), Nil,
            Some(<<"t", "r", "u", "e">>))

\* ret when no static method has been called.
\* db is the connection the call made, None if it made none.
NoRet ==
    [op |-> "none", out |-> "none", ok |-> FALSE, error |-> Nil,
     kwargs |-> <<>>, db |-> None]

\* Class attributes as the class body sets them (lines 39-42); no thread is
\* in a call.
ClassInit ==
    /\ driver = None
    /\ graph = None
    /\ lock = None
    /\ falkordb_installed \in BOOLEAN
    /\ pc = [t \in Threads |-> "idle"]
    /\ tmp = [t \in Threads |-> None]
    /\ rec = [t \in Threads |-> NoCall]
    /\ ctorCalls = 0
    /\ justClosed = FALSE
    /\ probeFailed = None
    /\ undisturbed = TRUE
    /\ ret = NoRet

\* The one manager object there is.
TheManager == 1

\* The manager as FalkorDBRemoteManager() leaves it.
ConnInit ==
    /\ ClassInit
    /\ environ = DefaultEnviron
    /\ self = init
    /\ instance = TheManager
    /\ atexit_hooks = 1

\* A call ends: its outcome is recorded, and the thread is at "done" until
\* the caller takes the outcome.
Finish(t, r) ==
    /\ rec' = [rec EXCEPT ![t] = r]
    /\ pc' = [pc EXCEPT ![t] = "done"]

\* ------------------------------------------------- FalkorDBRemoteManager()
\* Line 45, __new__: the unlocked check of _instance.
new_45(t) ==
    /\ pc[t] = "idle"
    /\ pc' = [pc EXCEPT ![t] = IF instance = None THEN "new_46"
                               ELSE "init_52"]
    /\ rec' = [rec EXCEPT ![t] = NewCall("FalkorDBRemoteManager")]
    /\ UNCHANGED <<driver, graph, lock, tmp, ctorCalls, justClosed, probeFailed,
                   undisturbed, falkordb_installed, dispVars, environ, self,
                   ret, instance, atexit_hooks>>

\* Line 46: with cls._lock.
new_46(t) ==
    /\ pc[t] = "new_46"
    /\ lock = None
    /\ lock' = t
    /\ pc' = [pc EXCEPT ![t] = "new_47"]
    /\ UNCHANGED <<driver, graph, tmp, rec, ctorCalls, justClosed, probeFailed,
                   undisturbed, falkordb_installed, dispVars, environ, self,
                   ret, instance, atexit_hooks>>

\* Lines 47-49: the check repeated under the lock, the manager created if
\* there is none, the lock released; Python then calls __init__ on what
\* __new__ returned.
new_47(t) ==
    /\ pc[t] = "new_47"
    /\ instance' = TheManager
    /\ lock' = None
    /\ pc' = [pc EXCEPT ![t] = "init_52"]
    /\ UNCHANGED <<driver, graph, tmp, rec, ctorCalls, justClosed, probeFailed,
                   undisturbed, falkordb_installed, dispVars, environ, self,
                   ret, atexit_hooks>>

\* Lines 52-53, __init__: if hasattr(self, '_initialized'): return. No lock
\* is held.
init_52(t) ==
    /\ pc[t] = "init_52"
    /\ IF self.initialized
       THEN Finish(t, [rec[t] EXCEPT !.out = "return"])
       ELSE /\ pc' = [pc EXCEPT ![t] = "init_55"]
            /\ rec' = rec
    /\ UNCHANGED <<driver, graph, lock, tmp, ctorCalls, justClosed, probeFailed,
                   undisturbed, falkordb_installed, dispVars, environ, self,
                   ret, instance, atexit_hooks>>

\* Lines 55-61: the attributes are read from the environment and
\* _initialized is set; int() of a port that is no number raises ValueError
\* before line 61.
init_55(t) ==
    /\ pc[t] = "init_55"
    /\ self' = init
    /\ IF init.initialized
       THEN /\ pc' = [pc EXCEPT ![t] = "init_63"]
            /\ rec' = rec
       ELSE Finish(t, [rec[t] EXCEPT !.out = "ValueError"])
    /\ UNCHANGED <<driver, graph, lock, tmp, ctorCalls, justClosed, probeFailed,
                   undisturbed, falkordb_installed, dispVars, environ,
                   ret, instance, atexit_hooks>>

\* Line 63: atexit.register(self.shutdown).
init_63(t) ==
    /\ pc[t] = "init_63"
    /\ atexit_hooks' = atexit_hooks + 1
    /\ Finish(t, [rec[t] EXCEPT !.out = "return"])
    /\ UNCHANGED <<driver, graph, lock, tmp, ctorCalls, justClosed, probeFailed,
                   undisturbed, falkordb_installed, dispVars, environ, self,
                   ret, instance>>

\* ----------------------------------------------------------- get_driver
\* Line 73: the call starts with the unlocked check of _driver.
get_driver_check(t) ==
    /\ pc[t] = "idle"
    /\ pc' = [pc EXCEPT ![t] = IF driver = None THEN "gd_lock" ELSE "gd_return"]
    /\ rec' = [rec EXCEPT ![t] = NewCall("get_driver")]
    /\ UNCHANGED <<driver, graph, lock, fixed, tmp, ctorCalls,
                   justClosed, probeFailed, undisturbed>>

\* A get_driver that locks but does not look at _driver again.
RecheckSkipped == TRUE

\* Line 75: the check repeated under the lock.
Recheck == driver = None

\* An ImportError that is raised as it is.
import_error_unconverted == "ImportError"

\* Lines 103-108: an ImportError is raised as
\* ValueError("FalkorDB client missing.").
import_error == "ValueError"

\* Lines 74-77 and 103-108: "with self._lock" blocks until the lock is free;
\* the check is repeated under the lock. With _driver set the with block ends
\* (the lock is released) and line 113 is next. Otherwise the client library
\* is imported; an ImportError becomes ValueError("FalkorDB client missing."),
\* which leaves the with block.
get_driver_lock(t) ==
    /\ pc[t] = "gd_lock"
    /\ lock = None
    /\ IF ~Recheck
       THEN /\ pc' = [pc EXCEPT ![t] = "gd_return"]
            /\ UNCHANGED <<lock, rec, undisturbed>>
       ELSE IF falkordb_installed
       THEN /\ lock' = t
            /\ pc' = [pc EXCEPT ![t] = "gd_construct"]
            /\ UNCHANGED <<rec, undisturbed>>
       ELSE /\ lock' = None
            /\ undisturbed' = FALSE
            /\ Finish(t, [rec[t] EXCEPT !.out = import_error])
    /\ UNCHANGED <<driver, graph, fixed, tmp, ctorCalls,
                   justClosed, probeFailed>>

\* Lines 109-111: any other exception is logged and raised again; leaving
\* the with block releases the lock. Nothing is written to _driver or _graph.
get_driver_except(t, r) ==
    /\ lock' = None
    /\ undisturbed' = FALSE
    /\ Finish(t, [r EXCEPT !.out = "Exception"])
    /\ UNCHANGED <<driver, graph>>

\* Line 95: self._driver = FalkorDB(**kwargs). The constructor returns a new
\* connection, which is stored, or raises.
get_driver_construct(t) ==
    /\ pc[t] = "gd_construct"
    /\ ctorCalls < MaxCtor
    /\ ctorCalls' = ctorCalls + 1
    /\ \E ok \in BOOLEAN :
         LET r == [rec[t] EXCEPT !.ctor = TRUE,
                      !.kwargs = connect_kwargs(self.host, self.port,
                          self.password, self.username, self.ssl)] IN
         IF ok
         THEN /\ driver' = ctorCalls + 1
              /\ pc' = [pc EXCEPT ![t] = "gd_select"]
              /\ rec' = [rec EXCEPT ![t] = r]
              /\ UNCHANGED <<graph, lock, undisturbed>>
         ELSE get_driver_except(t, r)
    /\ UNCHANGED <<fixed, tmp, justClosed, probeFailed>>

\* Line 96, right-hand side: self._driver.select_graph(self.graph_name).
\* _driver is read again: None (a close_driver ran meanwhile) has no
\* select_graph attribute, an AttributeError. select_graph may raise too.
get_driver_select(t) ==
    /\ pc[t] = "gd_select"
    /\ \E ok \in BOOLEAN :
         IF driver # None /\ ok
         THEN /\ tmp' = [tmp EXCEPT ![t] = driver]
              /\ pc' = [pc EXCEPT ![t] = "gd_setgraph"]
              /\ UNCHANGED <<driver, graph, lock, rec, undisturbed>>
         ELSE /\ tmp' = tmp
              /\ get_driver_except(t, rec[t])
    /\ UNCHANGED <<fixed, ctorCalls, justClosed, probeFailed>>

\* Line 96, the assignment to self._graph.
get_driver_setgraph(t) ==
    /\ pc[t] = "gd_setgraph"
    /\ graph' = tmp[t]
    /\ tmp' = [tmp EXCEPT ![t] = None]
    /\ pc' = [pc EXCEPT ![t] = "gd_probe"]
    /\ UNCHANGED <<driver, lock, fixed, rec, ctorCalls,
                   justClosed, probeFailed, undisturbed>>

\* Line 99: self._graph.query("RETURN 1"). _graph is read again: None has no
\* query attribute. On success the with block ends and line 113 is next.
get_driver_probe(t) ==
    /\ pc[t] = "gd_probe"
    /\ \E ok \in BOOLEAN :
         LET r == [rec[t] EXCEPT !.probes = IF graph # None THEN 1 ELSE 0] IN
         IF graph # None /\ ok
         THEN /\ lock' = None
              /\ pc' = [pc EXCEPT ![t] = "gd_return"]
              /\ rec' = [rec EXCEPT ![t] = r]
              /\ UNCHANGED <<driver, graph, undisturbed>>
         ELSE get_driver_except(t, r)
    /\ UNCHANGED <<fixed, tmp, ctorCalls, justClosed, probeFailed>>

\* Line 113: return FalkorDBDriverWrapper(self._graph).
get_driver_return(t) ==
    /\ pc[t] = "gd_return"
    /\ Finish(t, [rec[t] EXCEPT !.out = "return", !.wrapped = graph])
    /\ UNCHANGED <<driver, graph, lock, fixed, tmp, ctorCalls,
                   justClosed, probeFailed, undisturbed>>

\* ------------------------------------------------- close_driver, shutdown
\* A close_driver that closes the connection it holds
\* (self._driver.close()), which None does not have.
close_driver_117_closes_connection(t) ==
    /\ pc[t] = "idle"
    /\ IF driver = None
       THEN /\ Finish(t, [NewCall("close_driver") EXCEPT
                             !.out = "AttributeError"])
            /\ UNCHANGED <<driver, undisturbed>>
       ELSE /\ rec' = [rec EXCEPT ![t] = NewCall("close_driver")]
            /\ driver' = None
            /\ pc' = [pc EXCEPT ![t] = "cd_graph"]
            /\ undisturbed' = FALSE
    /\ UNCHANGED <<graph, lock, fixed, tmp, ctorCalls,
                   justClosed, probeFailed>>

\* Line 117: self._driver = None, without the lock. shutdown (lines 120-122)
\* does nothing but call close_driver, so a call of it is this same call.
close_driver_117(t) ==
    /\ pc[t] = "idle"
    /\ rec' = [rec EXCEPT ![t] = NewCall("close_driver")]
    /\ driver' = None
    /\ pc' = [pc EXCEPT ![t] = "cd_graph"]
    /\ undisturbed' = FALSE
    /\ UNCHANGED <<graph, lock, fixed, tmp, ctorCalls,
                   justClosed, probeFailed>>

\* A close_driver that forgets the graph handle.
close_driver_118_keeps_graph(t) ==
    /\ pc[t] = "cd_graph"
    /\ Finish(t, [rec[t] EXCEPT !.out = "return"])
    /\ UNCHANGED <<driver, graph, lock, fixed, tmp, ctorCalls,
                   justClosed, probeFailed, undisturbed>>

\* Line 118: self._graph = None, and the method returns.
close_driver_118(t) ==
    /\ pc[t] = "cd_graph"
    /\ graph' = None
    /\ Finish(t, [rec[t] EXCEPT !.out = "return"])
    /\ UNCHANGED <<driver, lock, fixed, tmp, ctorCalls,
                   justClosed, probeFailed, undisturbed>>

\* ------------------------------------------------------------ is_connected
\* Lines 126-127: if self._graph is None: return False.
is_connected_check(t) ==
    /\ pc[t] = "idle"
    /\ IF graph = None
       THEN Finish(t, [NewCall("is_connected") EXCEPT !.out = "return",
                                                      !.connected = FALSE])
       ELSE /\ pc' = [pc EXCEPT ![t] = "ic_probe"]
            /\ rec' = [rec EXCEPT ![t] =
                         [NewCall("is_connected") EXCEPT !.cached = graph]]
    /\ UNCHANGED <<driver, graph, lock, fixed, tmp, ctorCalls,
                   justClosed, probeFailed, undisturbed>>

\* An is_connected that reads _graph.query outside its try block.
ProbeOfNoneRaises == "AttributeError"

\* What line 129 does when _graph is None by then: the AttributeError is
\* raised inside the try block and caught by "except Exception" (line 131).
ProbeOfNone == "return"

\* An is_connected that drops the cached handles when its probe raises.
handles_after_probe_dropped(ok) ==
    IF ok THEN <<driver, graph>> ELSE <<None, None>>

\* Lines 130-132: "return True" and "except Exception: return False" assign
\* nothing.
handles_after_probe(ok) == <<driver, graph>>

\* Lines 128-132: self._graph.query("RETURN 1") inside try. _graph is read
\* again; a failed probe, like a None _graph, gives False.
is_connected_probe(t) ==
    /\ pc[t] = "ic_probe"
    /\ \E ok \in BOOLEAN :
         /\ Finish(t, [rec[t] EXCEPT !.out = IF graph = None THEN ProbeOfNone
                                             ELSE "return",
                                     !.probes = IF graph # None THEN 1 ELSE 0,
                                     !.connected = (graph # None /\ ok)])
         /\ driver' = handles_after_probe(graph # None /\ ok)[1]
         /\ graph' = handles_after_probe(graph # None /\ ok)[2]
    /\ UNCHANGED <<lock, fixed, tmp, ctorCalls,
                   justClosed, probeFailed, undisturbed>>

\* ------------------------------------------------------- the caller's side
\* The caller takes the outcome of the finished call; the thread is free for
\* its next call.
Return(t) ==
    /\ pc[t] = "done"
    /\ pc' = [pc EXCEPT ![t] = "idle"]
    /\ rec' = [rec EXCEPT ![t] = NoCall]
    /\ justClosed' = (rec[t].op = "close_driver")
    /\ probeFailed' = IF /\ rec[t].op = "is_connected"
                         /\ rec[t].probes = 1
                         /\ ~rec[t].connected
                      THEN rec[t].cached ELSE None
    /\ UNCHANGED <<driver, graph, lock, fixed, tmp, ctorCalls,
                   undisturbed>>

Step(t) ==
    \/ get_driver_check(t)
    \/ get_driver_lock(t)
    \/ get_driver_construct(t)
    \/ get_driver_select(t)
    \/ get_driver_setgraph(t)
    \/ get_driver_probe(t)
    \/ get_driver_return(t)
    \/ close_driver_117(t)
    \/ close_driver_118(t)
    \/ is_connected_check(t)
    \/ is_connected_probe(t)
    \/ Return(t)


(***************************************************************************)
(* Part II models the three handlers of indexing_handlers.py:              *)
(* add_code_to_graph, add_package_to_graph and index_repository. A handler *)
(* call is a sequence of steps, one per call of a collaborator that reads  *)
(* or writes state shared with other callers (the repository lister, the   *)
(* job store, the event loop); calls of collaborators that touch nothing   *)
(* shared (path resolution, the estimator, the package locator, the        *)
(* coroutine factory) belong to the step they precede. Every collaborator  *)
(* may raise.                                                              *)
(***************************************************************************)
\* The threads that call the handlers.
Callers == {"c1", "c2"}

\* ------------------------------------------------------------ file paths
\* A path as spelled: whether it is absolute, and its components.
AbsPath(parts) == [given |-> TRUE, abs |-> TRUE, parts |-> parts]
RelPath(parts) == [given |-> TRUE, abs |-> FALSE, parts |-> parts]
\* args.get("path") of a call without a path: None.
NoPath == [given |-> FALSE, abs |-> FALSE, parts |-> <<>>]

\* The file system the handlers run on: the working directory, the symbolic
\* links and the directories that exist.
Cwd == <<"workspace">>
Symlinks == {[link |-> <<"workspace", "lnk">>, target |-> <<"workspace", "app">>]}
Directories == {<<"workspace", "app">>, <<"site", "requests">>}

\* pathlib's resolve() on the components left to walk: "." is dropped, ".."
\* drops the component before it, a symbolic link is replaced by its target.
RECURSIVE Walk(_, _)
Walk(done, rest) ==
    IF rest = <<>> THEN done
    ELSE LET h == Head(rest)
             next == Append(done, h)
         IN  IF h = "." THEN Walk(done, Tail(rest))
             ELSE IF h = ".."
             THEN Walk(IF done = <<>> THEN done
                       ELSE SubSeq(done, 1, Len(done) - 1), Tail(rest))
             ELSE IF \E l \in Symlinks : l.link = next
             THEN Walk((CHOOSE l \in Symlinks : l.link = next).target, Tail(rest))
             ELSE Walk(next, Tail(rest))

\* Path(p).resolve(): the absolute, symlink-free form of p (lines 33, 38,
\* 107, 119).
resolve(p) == AbsPath(Walk(IF p.abs THEN <<>> ELSE Cwd, p.parts))

\* No look at the file system.
exists_unchecked(p) == TRUE

\* path_obj.exists() (line 109), os.path.exists (line 175).
exists(p) == resolve(p).parts \in Directories

\* ------------------------------------------------------------------ URLs
\* A URL as urlparse splits it: scheme, hostname, port and the segments of
\* its path; "" stands for a part that is absent. A segment is its name and
\* its suffix, "" or ".git"; a trailing "/" shows as a last empty segment.
Seg(stem, ext) == [stem |-> stem, ext |-> ext]
Url(scheme, host, port, path) ==
    [given |-> TRUE, scheme |-> scheme, host |-> host, port |-> port,
     path |-> path]
\* args.get("url") of a call without a url: None.
NoUrl == [given |-> FALSE, scheme |-> "", host |-> "", port |-> "", path |-> <<>>]

\* Line 25: parsed.path.rstrip("/") drops the trailing empty segments.
RECURSIVE rstrip_slash(_)
rstrip_slash(path) ==
    IF path # <<>> /\ path[Len(path)] = Seg("", "")
    THEN rstrip_slash(SubSeq(path, 1, Len(path) - 1))
    ELSE path

\* Lines 25-27: the last path segment, without a ".git" suffix.
repo_name(url) ==
    LET path == rstrip_slash(url.path)
        last == IF path = <<>> THEN Seg("", "") ELSE path[Len(path)]
    IN  IF last.ext = ".git" THEN last.stem ELSE last.stem \o last.ext

\* ------------------------------------------------------------------ text
\* A text is a sequence of characters; a fixed fragment of a message is one
\* element.
RECURSIVE SeqsUpTo(_, _)
SeqsUpTo(S, n) ==
    IF n = 0 THEN {<<>>}
    ELSE LET shorter == SeqsUpTo(S, n - 1)
         IN  shorter \cup {Append(q, x) : q \in shorter, x \in S}

Contains(text, sub) ==
    \E i \in 1..(Len(text) - Len(sub) + 1) :
        SubSeq(text, i, i + Len(sub) - 1) = sub

\* The redaction marker of line 64.
Marker == <<"*", "*", "*">>

\* str.replace(old, new): the occurrences of old, found from the left and
\* not overlapping, are replaced by new.
RECURSIVE replace(_, _, _)
replace(text, old, new) ==
    IF Len(text) < Len(old) \/ old = <<>> THEN text
    ELSE IF SubSeq(text, 1, Len(old)) = old
    THEN new \o replace(SubSeq(text, Len(old) + 1, Len(text)), old, new)
    ELSE <<Head(text)>> \o replace(Tail(text), old, new)

RECURSIVE PathText(_)
PathText(path) ==
    IF path = <<>> THEN <<>>
    ELSE <<"/", Head(path).stem \o Head(path).ext>> \o PathText(Tail(path))

\* The URL as the caller wrote it.
UrlText(url) ==
    (IF url.scheme # "" THEN <<url.scheme, "://">> ELSE <<>>)
    \o (IF url.host # "" THEN <<url.host>> ELSE <<>>)
    \o (IF url.port # "" THEN <<":", url.port>> ELSE <<>>)
    \o PathText(url.path)

\* Lines 45-51: the URL handed to git. With a token and a hostname it is
\* rebuilt from scheme, token, hostname, port and path.
clone_url(url, token) ==
    IF token # <<>> /\ url.host # ""
    THEN <<url.scheme, "://">> \o token \o <<"@", url.host>>
         \o (IF url.port # "" THEN <<":", url.port>> ELSE <<>>)
         \o PathText(url.path)
    ELSE UrlText(url)

\* Line 57: the timeout of the clone, in seconds.
CloneTimeout == 300

\* An error text made of the captured stderr as it is.
clone_failed_text_unredacted(stderr, token) ==
    <<"git clone failed: ">> \o strip(stderr)

\* Lines 60-65: the error of a clone that exited non-zero. The token is
\* replaced in the captured stderr only when one is set.
clone_failed_text(stderr, token) ==
    <<"git clone failed: ">>
    \o strip(IF token # <<>> THEN replace(stderr, token, Marker) ELSE stderr)

\* Lines 91-92: the error of a clone that ran into the timeout.
clone_timeout_text(url) ==
    <<"git clone timed out after ", ToString(CloneTimeout), " seconds for ">>
    \o UrlText(url)

\* ------------------------------------------------- what callers may pass
PathArgs ==
    {AbsPath(<<"workspace", "app">>), RelPath(<<".", "app">>),
     AbsPath(<<"workspace", "lnk">>), AbsPath(<<"nowhere">>), NoPath}

UrlArgs ==
    {Url("https", "example.com", "", <<Seg("org", ""), Seg("app", ".git")>>),
     Url("https", "example.com", "8443",
         <<Seg("org", ""), Seg("lib", ""), Seg("", "")>>),
     Url("https", "example.com", "", <<Seg("", "")>>),
     Url("", "", "", <<Seg("srv", ""), Seg("app", "")>>),
     NoUrl}

PackageArgs == {"requests"}
LanguageArgs == {"python", ""}

\* What get_local_package_path may return: a path, or None.
PackagePaths ==
    {AbsPath(<<"site", "requests">>), AbsPath(<<"site", "gone">>), NoPath}

\* What the repository lister may hold when the handlers are first called.
Repo(path, name, dep) == [path |-> path, name |-> name, is_dependency |-> dep]
ListedAtStart ==
    {{},
     {Repo(AbsPath(<<"workspace", "app">>), "app", FALSE)},
     {Repo(AbsPath(<<"workspace", "lnk">>), "lnk", FALSE)},
     {Repo(AbsPath(<<"site", "requests">>), "requests", TRUE)},
     {Repo(AbsPath(<<"site", "requests">>), "requests.py", TRUE)},
     {Repo(AbsPath(<<"site", "requests">>), "requests", FALSE)},
     {Repo(AbsPath(<<"workspace", "app">>), "app", FALSE),
      Repo(AbsPath(<<"site", "requests">>), "requests", TRUE)}}

\* GIT_TOKEN values: the characters of a token are not characters of the
\* handler's own messages or of the redaction marker.
TokenChars == {"t", "k"}
Tokens == SeqsUpTo(TokenChars, MaxTokLen)

\* What a failed clone may have written to stderr: any text of token
\* characters, other characters, marker characters and white space.
StderrChars == TokenChars \cup {"x", "*", " "}
Stderrs == SeqsUpTo(StderrChars, MaxErrLen)

\* ------------------------------------------------------------ a call
NoRes == [kind |-> "none", why |-> "", job_id |-> None, text |-> <<>>]

\* The arguments of build_graph_from_path_async when it has not been called.
NoCoro == [path |-> NoPath, is_dependency |-> FALSE, job_id |-> None]

\* job_path and job_dep are what create_job was called with, coro what
\* build_graph_from_path_async was called with.
NoHandlerCall ==
    [entry |-> "none", path |-> NoPath, url |-> NoUrl, package_name |-> "",
     language |-> "", is_dependency |-> FALSE, path_obj |-> NoPath,
     job_id |-> None, job_path |-> NoPath, job_dep |-> FALSE,
     coro |-> NoCoro]

DispInit ==
    /\ listed \in ListedAtStart
    /\ git_token \in Tokens
    /\ jobs = 0
    /\ dpc = [c \in Callers |-> "idle"]
    /\ call = [c \in Callers |-> NoHandlerCall]
    /\ trace = [c \in Callers |-> <<>>]
    /\ res = [c \in Callers |-> NoRes]
    /\ loop = [j \in 1..MaxJobs |-> "none"]

\* The handler returns mapping r.
Returns(c, r) ==
    /\ res' = [res EXCEPT ![c] = r]
    /\ dpc' = [dpc EXCEPT ![c] = "done"]

\* {"success": False, "message": ...}: lines 39-42, 120-123, 165-168.
Duplicate == [NoRes EXCEPT !.kind = "duplicate"]
\* {"error": ...} returned by a check of the handler.
Error(why) == [NoRes EXCEPT !.kind = "error", !.why = why]
\* A handler whose failing step is outside its try block: the exception
\* reaches the caller.
Propagated == [NoRes EXCEPT !.kind = "raised"]

\* {"error": f"Failed to ...: {str(e)}"} of "except Exception" (lines 93-95,
\* 147-149, 203-205).
Caught == [NoRes EXCEPT !.kind = "error", !.why = "exception",
                         !.text = <<"Failed to ", "<str(e)>">>]

\* The collaborators called so far, with those called now.
Called(c, names) == trace' = [trace EXCEPT ![c] = trace[c] \o names]

\* The last of the calls named raises inside the handler's try block:
\* control passes to "except Exception".
Raise(c, names) ==
    /\ Called(c, names \o <<"raised">>)
    /\ Returns(c, Caught)

\* ------------------------------------------- the steps the handlers share
\* A comparison of the paths as they are spelled.
already_indexed_as_spelled(path_obj) ==
    \E repo \in listed : repo.path = path_obj

\* Lines 37-38 and 118-119: some listed repository's resolved path is the
\* candidate's resolved path.
already_indexed(path_obj) ==
    \E repo \in listed : resolve(repo.path) = path_obj

\* Line 164: some listed dependency is named like the package.
package_indexed(package_name) ==
    \E repo \in listed :
        /\ repo.is_dependency
        /\ repo.name = package_name \/ repo.name = package_name \o ".py"

\* A duplicate check that runs the estimator before it compares.
check_indexed_after_estimate(c, next) ==
    \E ok \in BOOLEAN :
        IF ~ok THEN Raise(c, <<"list_repos">>)
        ELSE /\ Called(c, <<"list_repos", "estimate">>)
             /\ IF already_indexed(call[c].path_obj)
                THEN Returns(c, Duplicate)
                ELSE /\ dpc' = [dpc EXCEPT ![c] = next]
                     /\ res' = res

\* Lines 36-42 and 117-123: the lister is called and the candidate compared
\* with what it lists.
check_indexed(c, next) ==
    \E ok \in BOOLEAN :
        IF ~ok THEN Raise(c, <<"list_repos">>)
        ELSE /\ Called(c, <<"list_repos">>)
             /\ IF already_indexed(call[c].path_obj)
                THEN Returns(c, Duplicate)
                ELSE /\ dpc' = [dpc EXCEPT ![c] = next]
                     /\ res' = res

\* Lines 68-69, 126-127 and 180-182: the estimator, then the job store's
\* create_job, which hands out the next job id.
estimate_and_create(c, job_path, next) ==
    \/ /\ Raise(c, <<"estimate">>)
       /\ UNCHANGED <<jobs, call>>
    \/ /\ Raise(c, <<"estimate", "create_job">>)
       /\ UNCHANGED <<jobs, call>>
    \/ /\ jobs < MaxJobs
       /\ Called(c, <<"estimate", "create_job">>)
       /\ jobs' = jobs + 1
       /\ call' = [call EXCEPT ![c].job_id = jobs + 1,
                               ![c].job_path = job_path,
                               ![c].job_dep = call[c].is_dependency]
       /\ dpc' = [dpc EXCEPT ![c] = next]
       /\ res' = res

\* A handler that leaves the update of the job to the submitted work.
update_job_deferred(c, next) ==
    /\ dpc' = [dpc EXCEPT ![c] = next]
    /\ res' = res
    /\ trace' = trace

\* Lines 70, 128 and 184: the job store's update_job with the estimate.
update_job(c, next) ==
    \E ok \in BOOLEAN :
        IF ok
        THEN /\ Called(c, <<"update_job">>)
             /\ dpc' = [dpc EXCEPT ![c] = next]
             /\ res' = res
        ELSE Raise(c, <<"update_job">>)

\* Lines 79-89, 138-145 and 193-201: {"success": True, "job_id": job_id, ...}.
Success(c) == [NoRes EXCEPT !.kind = "success", !.job_id = call[c].job_id]

\* Work built for the path as the caller wrote it.
coro_args_as_given(c) ==
    [path |-> call[c].path, is_dependency |-> call[c].is_dependency,
     job_id |-> call[c].job_id]

\* Lines 72-74, 131-133 and 186-188:
\* build_graph_from_path_async(path_obj, is_dependency, job_id).
coro_args(c) ==
    [path |-> call[c].path_obj, is_dependency |-> call[c].is_dependency,
     job_id |-> call[c].job_id]

\* A handler that waits for the future of the work it has submitted
\* (future.result()) before it returns.
submit_and_wait(c) ==
    /\ Called(c, <<"build_coro", "submit">>)
    /\ call' = [call EXCEPT ![c].coro = coro_args(c)]
    /\ loop' = [loop EXCEPT ![call[c].job_id] = "scheduled"]
    /\ dpc' = [dpc EXCEPT ![c] = "waiting"]
    /\ res' = res

\* Lines 72-89, 131-145 and 186-201: the coroutine is built and handed to the
\* event loop with run_coroutine_threadsafe, whose future is dropped; the
\* handler returns at once.
submit(c) ==
    \/ /\ Raise(c, <<"build_coro">>)
       /\ UNCHANGED <<loop, call>>
    \/ /\ Raise(c, <<"build_coro", "submit">>)
       /\ call' = [call EXCEPT ![c].coro = coro_args(c)]
       /\ loop' = loop
    \/ /\ Called(c, <<"build_coro", "submit">>)
       /\ call' = [call EXCEPT ![c].coro = coro_args(c)]
       /\ loop' = [loop EXCEPT ![call[c].job_id] = "scheduled"]
       /\ Returns(c, Success(c))

\* ------------------------------------------------------ add_code_to_graph
\* Lines 103-114: the path is resolved (Path(None) raises TypeError) and
\* must exist.
add_code_to_graph_call(c) ==
    /\ dpc[c] = "idle"
    /\ \E p \in PathArgs, dep \in BOOLEAN :
         /\ call' = [call EXCEPT ![c] =
                [NoHandlerCall EXCEPT !.entry = "add_code_to_graph",
                    !.path = p, !.is_dependency = dep,
                    !.path_obj = IF p.given THEN resolve(p) ELSE NoPath]]
         /\ IF ~p.given THEN Raise(c, <<"resolve">>)
            ELSE /\ Called(c, <<"resolve">>)
                 /\ IF ~exists(p)
                    THEN Returns(c, [NoRes EXCEPT !.kind = "path_not_found"])
                    ELSE /\ dpc' = [dpc EXCEPT ![c] = "ac_list"]
                         /\ res' = res
    /\ UNCHANGED <<listed, git_token, jobs, loop, connVars>>

\* Lines 116-123.
add_code_to_graph_list(c) ==
    /\ dpc[c] = "ac_list"
    /\ check_indexed(c, "ac_create")
    /\ UNCHANGED <<listed, git_token, jobs, call, loop, connVars>>

\* Lines 125-127.
add_code_to_graph_create(c) ==
    /\ dpc[c] = "ac_create"
    /\ estimate_and_create(c, call[c].path_obj, "ac_update")
    /\ UNCHANGED <<listed, git_token, loop, connVars>>

\* Line 128.
add_code_to_graph_update(c) ==
    /\ dpc[c] = "ac_update"
    /\ update_job(c, "ac_submit")
    /\ UNCHANGED <<listed, git_token, jobs, call, loop, connVars>>

\* Lines 130-145.
add_code_to_graph_submit(c) ==
    /\ dpc[c] = "ac_submit"
    /\ submit(c)
    /\ UNCHANGED <<listed, git_token, jobs, connVars>>

\* --------------------------------------------------- add_package_to_graph
\* Lines 153-158: a language is required.
add_package_to_graph_call(c) ==
    /\ dpc[c] = "idle"
    /\ \E name \in PackageArgs, lang \in LanguageArgs, dep \in {TRUE} :
         /\ call' = [call EXCEPT ![c] =
                [NoHandlerCall EXCEPT !.entry = "add_package_to_graph",
                    !.package_name = name, !.language = lang,
                    !.is_dependency = dep]]
         /\ IF lang = "" THEN Returns(c, Error("language required"))
            ELSE /\ dpc' = [dpc EXCEPT ![c] = "ap_list"]
                 /\ res' = res
    /\ UNCHANGED <<listed, git_token, jobs, trace, loop, connVars>>

\* Lines 161-178: the lister is called and the listed dependencies compared
\* by name; then the package is located. path_obj is Path(package_path),
\* not resolved.
add_package_to_graph_list(c) ==
    /\ dpc[c] = "ap_list"
    /\ \E ok \in BOOLEAN :
         IF ~ok
         THEN /\ Raise(c, <<"list_repos">>)
              /\ call' = call
         ELSE IF package_indexed(call[c].package_name)
         THEN /\ Called(c, <<"list_repos">>)
              /\ Returns(c, Duplicate)
              /\ call' = call
         ELSE \E found \in BOOLEAN, package_path \in PackagePaths :
                IF ~found
                THEN /\ Raise(c, <<"list_repos", "get_local_package_path">>)
                     /\ call' = call
                ELSE /\ Called(c, <<"list_repos", "get_local_package_path">>)
                     /\ IF ~package_path.given
                        THEN /\ Returns(c, Error("package not found"))
                             /\ call' = call
                        ELSE IF ~exists(package_path)
                        THEN /\ Returns(c, Error("package path does not exist"))
                             /\ call' = call
                        ELSE /\ call' = [call EXCEPT ![c].path_obj = package_path]
                             /\ dpc' = [dpc EXCEPT ![c] = "ap_create"]
                             /\ res' = res
    /\ UNCHANGED <<listed, git_token, jobs, loop, connVars>>

\* Lines 180-182.
add_package_to_graph_create(c) ==
    /\ dpc[c] = "ap_create"
    /\ estimate_and_create(c, call[c].path_obj, "ap_update")
    /\ UNCHANGED <<listed, git_token, loop, connVars>>

\* Line 184.
add_package_to_graph_update(c) ==
    /\ dpc[c] = "ap_update"
    /\ update_job(c, "ap_submit")
    /\ UNCHANGED <<listed, git_token, jobs, call, loop, connVars>>

\* Lines 186-201.
add_package_to_graph_submit(c) ==
    /\ dpc[c] = "ap_submit"
    /\ submit(c)
    /\ UNCHANGED <<listed, git_token, jobs, connVars>>

\* ------------------------------------------------------- index_repository
\* A handler that takes whatever name the URL gives.
no_name_unchecked(name) == FALSE

\* Line 29: "if not repo_name".
no_name(name) == name = ""

\* Lines 15-33: a url is required, and a repository name must follow from
\* it; the clone directory is /workspace/<name>, resolved.
index_repository_call(c) ==
    /\ dpc[c] = "idle"
    /\ \E u \in UrlArgs, dep \in {FALSE} :
         /\ call' = [call EXCEPT ![c] =
                [NoHandlerCall EXCEPT !.entry = "index_repository",
                    !.url = u, !.is_dependency = dep,
                    !.path_obj = resolve(AbsPath(<<"workspace", repo_name(u)>>))]]
         /\ IF ~u.given THEN Returns(c, Error("url required"))
            ELSE IF no_name(repo_name(u))
            THEN Returns(c, Error("no repository name"))
            ELSE /\ dpc' = [dpc EXCEPT ![c] = "ir_list"]
                 /\ res' = res
    /\ UNCHANGED <<listed, git_token, jobs, trace, loop, connVars>>

\* Lines 35-42.
index_repository_list(c) ==
    /\ dpc[c] = "ir_list"
    /\ check_indexed(c, "ir_clone")
    /\ UNCHANGED <<listed, git_token, jobs, call, loop, connVars>>

\* What git writes to stderr when it names the URL it was given.
EchoStderrs(c) ==
    {<<"fatal: ">> \o clone_url(call[c].url, git_token) \o <<" ">>}

\* A handler that does not look at the exit code of the clone.
nonzero_exit_ignored(c, stderr) ==
    /\ dpc' = [dpc EXCEPT ![c] = "ir_create"]
    /\ res' = res

\* Lines 60-65: "if result.returncode != 0" returns the error mapping.
nonzero_exit(c, stderr) ==
    Returns(c, [Error("clone failed") EXCEPT
                  !.text = clone_failed_text(stderr, git_token)])

\* Lines 44-65 and 91-95: git clone runs as a subprocess with a timeout. It
\* exits 0, or exits non-zero having written stderr, or runs into the
\* timeout (subprocess.TimeoutExpired), or cannot be run (another exception).
index_repository_clone(c, stderrs) ==
    /\ dpc[c] = "ir_clone"
    /\ \/ /\ Called(c, <<"git_clone">>)
          /\ dpc' = [dpc EXCEPT ![c] = "ir_create"]
          /\ res' = res
       \/ /\ Called(c, <<"git_clone", "nonzero">>)
          /\ \E stderr \in stderrs : nonzero_exit(c, stderr)
       \/ /\ Called(c, <<"git_clone", "raised">>)
          /\ Returns(c, [Error("clone timed out") EXCEPT
                           !.text = clone_timeout_text(call[c].url)])
       \/ Raise(c, <<"git_clone">>)
    /\ UNCHANGED <<listed, git_token, jobs, call, loop, connVars>>

\* Lines 67-69.
index_repository_create(c) ==
    /\ dpc[c] = "ir_create"
    /\ estimate_and_create(c, call[c].path_obj, "ir_update")
    /\ UNCHANGED <<listed, git_token, loop, connVars>>

\* Line 70.
index_repository_update(c) ==
    /\ dpc[c] = "ir_update"
    /\ update_job(c, "ir_submit")
    /\ UNCHANGED <<listed, git_token, jobs, call, loop, connVars>>

\* Lines 72-89.
index_repository_submit(c) ==
    /\ dpc[c] = "ir_submit"
    /\ submit(c)
    /\ UNCHANGED <<listed, git_token, jobs, connVars>>

\* ------------------------------------------------- around the handlers
\* The event loop, on its own thread, starts the coroutine that
\* run_coroutine_threadsafe scheduled for job j (lines 75, 134, 189).
loop_runs(j) ==
    /\ loop[j] = "scheduled"
    /\ loop' = [loop EXCEPT ![j] = "running"]
    /\ UNCHANGED <<listed, git_token, jobs, dpc, call, trace, res, connVars>>

\* The coroutine of job j runs to its end.
loop_finishes(j) ==
    /\ loop[j] = "running"
    /\ loop' = [loop EXCEPT ![j] = "finished"]
    /\ UNCHANGED <<listed, git_token, jobs, dpc, call, trace, res, connVars>>

\* The caller takes the mapping the handler returned.
handler_return(c) ==
    /\ dpc[c] = "done"
    /\ dpc' = [dpc EXCEPT ![c] = "idle"]
    /\ call' = [call EXCEPT ![c] = NoHandlerCall]
    /\ trace' = [trace EXCEPT ![c] = <<>>]
    /\ res' = [res EXCEPT ![c] = NoRes]
    /\ UNCHANGED <<listed, git_token, jobs, loop, connVars>>

(***************************************************************************)
(* Part III: the static methods validate_config and test_connection, which *)
(* read the environment themselves.                                        *)
(***************************************************************************)
\* "if not host": unset or empty.
no_host == getenv("FALKORDB_HOST") \in {Nil, Some("")}

\* A range check that has lost its lower bound.
in_port_range_no_lower_bound(port) == port <= MaxPort

\* Line 153: 1 <= port <= 65535.
in_port_range(port) == MinPort <= port /\ port <= MaxPort

\* Lines 146-158: the pair (is_valid, error_message).
validate_config ==
    IF no_host
    THEN [ok |-> FALSE,
          error |-> Some(<<"FALKORDB_HOST",
                           " environment variable is not set.">>)]
    ELSE IF ~is_int(port_str)
    THEN [ok |-> FALSE,
          error |-> Some(<<"FALKORDB_PORT must be a number, got '">>
                         \o port_str \o <<"'.">>)]
    ELSE IF ~in_port_range(int(port_str))
    THEN [ok |-> FALSE,
          error |-> Some(<<"FALKORDB_PORT must be between 1 and 65535, got ">>
                         \o str(int(port_str)) \o <<".">>)]
    ELSE [ok |-> TRUE, error |-> Nil]

validate_config_call ==
    /\ ret.op = "none"
    /\ ret' = [NoRet EXCEPT !.op = "validate_config", !.out = "return",
                            !.ok = validate_config.ok,
                            !.error = validate_config.error]
    /\ UNCHANGED <<driver, graph, lock, pc, tmp, rec, ctorCalls, justClosed, probeFailed,
                   undisturbed, falkordb_installed, dispVars, environ, self,
                   instance, atexit_hooks>>

\* Line 192: the connection FalkorDB(**kwargs) returns to test_connection,
\* an object other than every connection get_driver has made.
FreshConnection == MaxCtor + 1

\* Lines 165-197 with the outcome of the connection attempt: fails names
\* the step that raises, "none" when the connect and the probe succeed.
\* Line 177 converts the port outside any try block.
test_connection(fails) ==
    LET called == [NoRet EXCEPT !.op = "test_connection", !.out = "return"]
    IN
    IF ~falkordb_installed
    THEN [called EXCEPT !.error =
              Some(<<"FalkorDB client is not installed.",
                     "Install it with: pip install falkordb">>)]
    ELSE IF no_host
    THEN [called EXCEPT !.error = Some(<<"FALKORDB_HOST", " is not set.">>)]
    ELSE IF ~is_int(port_str)
    THEN [called EXCEPT !.out = "ValueError"]
    ELSE LET tried == [called EXCEPT !.kwargs =
                          connect_kwargs(getenv("FALKORDB_HOST")[1],
                              int(port_str),
                              or_None(getenv("FALKORDB_PASSWORD")),
                              or_None(getenv("FALKORDB_USERNAME")),
                              ssl_enabled)]
             made == IF fails = "connect" THEN tried
                     ELSE [tried EXCEPT !.db = FreshConnection]
         IN  IF fails # "none"
             THEN [made EXCEPT !.error =
                       Some(<<"Connection failed: ", "<e>">>)]
             ELSE [made EXCEPT !.ok = TRUE]

\* A test_connection that writes its connection and its graph to the
\* manager's _driver and _graph.
handles_after_test_stored(db) ==
    IF db = None THEN <<driver, graph>> ELSE <<db, db>>

\* Lines 192-193: db and graph are local variables of the static method;
\* _driver and _graph are what they were.
handles_after_test(db) == <<driver, graph>>

test_connection_call(fails) ==
    /\ ret.op = "none"
    /\ ret' = test_connection(fails)
    /\ driver' = handles_after_test(ret'.db)[1]
    /\ graph' = handles_after_test(ret'.db)[2]
    /\ UNCHANGED <<lock, pc, tmp, rec, ctorCalls, justClosed, probeFailed,
                   undisturbed, falkordb_installed, dispVars, environ, self,
                   instance, atexit_hooks>>

\* The caller takes what the static method returned.
static_return ==
    /\ ret.op # "none"
    /\ ret' = NoRet
    /\ UNCHANGED <<driver, graph, lock, pc, tmp, rec, ctorCalls, justClosed, probeFailed,
                   undisturbed, falkordb_installed, dispVars, environ, self,
                   instance, atexit_hooks>>

\* FALKORDB_PORT and FALKORDB_SSL values, each with what it is meant to be:
\* whether the port is a number, and which; whether the ssl value is among
\* the documented ones for on (TRUE) or off (FALSE).
PortCase(text, numeric, value) ==
    [text |-> text, numeric |-> numeric, value |-> value]

PortCases ==
    {PortCase(<<"1">>, TRUE, 1),
     PortCase(<<"6", "3", "8", "0">>, TRUE, 6380),
     PortCase(<<"6", "5", "5", "3", "5">>, TRUE, 65535),
     PortCase(<<"6", "5", "5", "3", "6">>, TRUE, 65536),
     PortCase(<<"0">>, TRUE, 0),
     PortCase(<<"-", "1">>, TRUE, 0 - 1),
     PortCase(<<" ", "8", "0">>, TRUE, 80),
     PortCase(<<"+", "7", "0", "0", "0", "0">>, TRUE, 70000),
     PortCase(<<"a", "b", "c">>, FALSE, 0),
     PortCase(<<"8", "o">>, FALSE, 0),
     PortCase(<<"1", ".", "5">>, FALSE, 0),
     PortCase(<<>>, FALSE, 0)}

SslCase(text, on) == [text |-> text, on |-> on]

SslCases ==
    {SslCase(<<"t", "r", "u", "e">>, TRUE),
     SslCase(<<"T", "r", "u", "e">>, TRUE),
     SslCase(<<"T", "R", "U", "E">>, TRUE),
     SslCase(<<"1">>, TRUE),
     SslCase(<<"y", "e", "s">>, TRUE),
     SslCase(<<"Y", "E", "S">>, TRUE),
     SslCase(<<"f", "a", "l", "s", "e">>, FALSE),
     SslCase(<<"0">>, FALSE),
     SslCase(<<"n", "o">>, FALSE),
     SslCase(<<>>, FALSE)}

Ports == {Nil} \cup {Some(x.text) : x \in PortCases}
Ssls == {Nil} \cup {Some(x.text) : x \in SslCases}

\* The environments looked at: every port with every host, and every
\* password, user name and ssl value with two ports.
Environs ==
    {Environ(h, p, Nil, Nil, Nil) :
        h \in {Nil, Some(""), Some("myhost")}, p \in Ports}
    \cup
    {Environ(Some("myhost"), p, pw, u, sl) :
        p \in {Nil, Some(<<"6", "3", "8", "0">>)},
        pw \in {Nil, Some(""), Some("secret")},
        u \in {Nil, Some("admin")},
        sl \in Ssls}

\* The connection manager alone: no handler is called.
Init ==
    /\ ConnInit
    /\ DispInit
    /\ listed = {}
    /\ git_token = <<>>

\* Threads call the manager's methods concurrently.
Next == \E t \in Threads : Step(t)

Spec == Init /\ [][Next]_vars

\* One call at a time: a thread takes a step only while every other thread
\* is outside a call.
SeqNext ==
    \E t \in Threads :
        /\ \A u \in Threads \ {t} : pc[u] = "idle"
        /\ Step(t)

SeqSpec == Init /\ [][SeqNext]_vars

\* The handlers alone, called concurrently by the callers.
DispatchInit ==
    /\ ConnInit
    /\ falkordb_installed
    /\ DispInit
    /\ git_token = <<"t">>

DispatchStep(c) ==
    \/ add_code_to_graph_call(c)
    \/ add_code_to_graph_list(c)
    \/ add_code_to_graph_create(c)
    \/ add_code_to_graph_update(c)
    \/ add_code_to_graph_submit(c)
    \/ add_package_to_graph_call(c)
    \/ add_package_to_graph_list(c)
    \/ add_package_to_graph_create(c)
    \/ add_package_to_graph_update(c)
    \/ add_package_to_graph_submit(c)
    \/ index_repository_call(c)
    \/ index_repository_list(c)
    \/ index_repository_clone(c, EchoStderrs(c))
    \/ index_repository_create(c)
    \/ index_repository_update(c)
    \/ index_repository_submit(c)
    \/ handler_return(c)

DispatchNext == \E c \in Callers : DispatchStep(c)

DispatchSpec == DispatchInit /\ [][DispatchNext]_vars

\* One caller's index_repository calls, over every GIT_TOKEN value and every
\* stderr text of a failed clone.
CloneInit ==
    /\ ConnInit
    /\ falkordb_installed
    /\ DispInit
    /\ listed = {}

CloneNext ==
    \E c \in {"c1"} :
        \/ index_repository_call(c)
        \/ index_repository_list(c)
        \/ index_repository_clone(c, Stderrs \cup EchoStderrs(c))
        \/ index_repository_create(c)
        \/ index_repository_update(c)
        \/ index_repository_submit(c)
        \/ handler_return(c)

CloneSpec == CloneInit /\ [][CloneNext]_vars

\* One thread with every environment: FalkorDBRemoteManager() if __init__
\* does not raise, then the manager's methods, and the static methods.
ConfigInit ==
    /\ ClassInit
    /\ environ \in Environs
    /\ self = init
    /\ instance = TheManager
    /\ atexit_hooks = IF self.initialized THEN 1 ELSE 0
    /\ DispInit
    /\ listed = {}
    /\ git_token = <<>>

ConfigNext ==
    \/ validate_config_call
    \/ \E fails \in {"none", "connect", "select", "probe"} :
          test_connection_call(fails)
    \/ static_return
    \/ self.initialized /\ Step(1)

ConfigSpec == ConfigInit /\ [][ConfigNext]_vars

\* The process from its start: no manager exists yet, and the threads
\* construct it concurrently, FalkorDBRemoteManager() again and again.
NewInit ==
    /\ ClassInit
    /\ environ \in {DefaultEnviron,
                     Environ(Some("myhost"), Some(<<"a", "b">>), Nil, Nil,
                             Nil)}
    /\ self = Uninitialized
    /\ instance = None
    /\ atexit_hooks = 0
    /\ DispInit
    /\ listed = {}
    /\ git_token = <<>>

NewNext ==
    \E t \in Threads :
        \/ new_45(t)
        \/ new_46(t)
        \/ new_47(t)
        \/ init_52(t)
        \/ init_55(t)
        \/ init_63(t)
        \/ Return(t)

NewSpec == NewInit /\ [][NewNext]_vars

\* One caller's handler calls and the event loop. The handler is straight
\* line code on the caller's thread and takes its next step; nothing makes
\* the event loop run what was scheduled on it.
LoopInit ==
    /\ ConnInit
    /\ falkordb_installed
    /\ DispInit
    /\ listed = {}
    /\ git_token = <<>>

LoopNext ==
    \/ \E c \in {"c1"} : DispatchStep(c)
    \/ \E j \in 1..MaxJobs : loop_runs(j)
    \/ \E j \in 1..MaxJobs : loop_finishes(j)

LoopSpec == LoopInit /\ [][LoopNext]_vars /\ WF_vars(DispatchStep("c1"))

(***************************************************************************)
(* The connection manager's properties.                                    *)
(***************************************************************************)
Quiescent == \A t \in Threads : pc[t] = "idle"

Returned(t, m) == pc[t] = "done" /\ rec[t].op = m /\ rec[t].out = "return"

\* C1: while no close_driver has been called and no connection attempt has
\* failed, the FalkorDB constructor has been called at most once, however
\* the threads' get_driver calls interleave; once a get_driver call has
\* returned it has been called exactly once, and the connection cached is
\* still that first one.
C1_ConstructedOnce ==
    undisturbed =>
        /\ ctorCalls <= 1
        /\ \A t \in Threads :
             Returned(t, "get_driver") => ctorCalls = 1 /\ driver = 1

\* Every thread has a returned get_driver call in hand, and one constructor
\* call served them all.
C1_Witness ==
    /\ undisturbed
    /\ ctorCalls = 1
    /\ \A t \in Threads : Returned(t, "get_driver")

\* C2: a get_driver call that fails after the client library was loaded
\* (the constructor, select_graph or the probe raised) leaves _driver and
\* _graph both None. Calls do not overlap here, so what the failed call
\* left is what is cached when it ends.
C2_FailureLeavesNothingCached ==
    \A t \in Threads :
        pc[t] = "done" /\ rec[t].op = "get_driver" /\ rec[t].out = "Exception"
            => driver = None /\ graph = None

\* C3: with calls one after another, once a close_driver (or shutdown) call
\* has returned both handles are None; the is_connected call that follows
\* returns False without a probe, and the get_driver call that follows,
\* with the client library installed, calls the constructor.
C3_ClosedIsDisconnected ==
    /\ justClosed /\ Quiescent => driver = None /\ graph = None
    /\ \A t \in Threads :
         justClosed /\ pc[t] = "done" =>
            /\ rec[t].op = "is_connected" =>
                  ~rec[t].connected /\ rec[t].probes = 0
            /\ rec[t].op = "get_driver" /\ falkordb_installed => rec[t].ctor

\* A get_driver call right after a close_driver has built the second
\* connection.
C3_Witness ==
    \E t \in Threads :
        /\ justClosed
        /\ Returned(t, "get_driver")
        /\ rec[t].ctor
        /\ ctorCalls = 2

\* C4: in every interleaving an is_connected call returns and does not
\* raise; it returns False when line 126 found no graph cached, and True
\* only when it issued the probe (which then succeeded).
C4_IsConnectedNeverRaises ==
    \A t \in Threads :
        pc[t] = "done" /\ rec[t].op = "is_connected" =>
            /\ rec[t].out = "return"
            /\ rec[t].cached = None => ~rec[t].connected /\ rec[t].probes = 0
            /\ rec[t].connected => rec[t].probes = 1

\* An is_connected call found a graph at line 126, a concurrent
\* close_driver cleared it before line 129, and the call returned False.
C4_Witness ==
    \E t \in Threads :
        /\ Returned(t, "is_connected")
        /\ rec[t].cached # None
        /\ rec[t].probes = 0
        /\ ~rec[t].connected

(***************************************************************************)
(* The handlers' properties.                                               *)
(***************************************************************************)
\* The call's last collaborator raised.
Raised(c) == trace[c] # <<>> /\ trace[c][Len(trace[c])] = "raised"

Invoked(c, name) == \E i \in DOMAIN trace[c] : trace[c][i] = name

\* The lister was called and returned its list.
ListerAnswered(c) ==
    \E i \in DOMAIN trace[c] :
        /\ trace[c][i] = "list_repos"
        /\ i = Len(trace[c]) \/ trace[c][i + 1] # "raised"

\* What a call that found a duplicate must not have done.
SideEffects ==
    {"git_clone", "estimate", "create_job", "update_job", "build_coro",
     "submit"}

NoSideEffects(c) ==
    /\ \A name \in SideEffects : ~Invoked(c, name)
    /\ call[c].job_id = None

\* C5: an exception raised by any step of a handler call (path resolution,
\* the lister, the package locator, the clone, the estimator, create_job,
\* update_job, the coroutine factory, the submission) ends the call with an
\* {"error": ...} mapping; no call ends with an exception reaching the
\* caller.
C5_ExceptionsBecomeErrors ==
    \A c \in Callers :
        /\ dpc[c] = "done" =>
              res[c].kind \in {"success", "duplicate", "path_not_found", "error"}
        /\ Raised(c) => dpc[c] = "done" /\ res[c].kind = "error"

\* One caller's add_package_to_graph call ended on a raising update_job
\* while the other's index_repository call ended on a raising submission.
C5_Witness ==
    \E c, d \in Callers :
        /\ call[c].entry = "add_package_to_graph"
        /\ Raised(c) /\ Invoked(c, "update_job") /\ res[c].kind = "error"
        /\ call[d].entry = "index_repository"
        /\ Raised(d) /\ Invoked(d, "submit") /\ res[d].kind = "error"

\* C6: a call in which create_job handed out a job id returns a mapping
\* that carries that job id.
C6_CreatedJobIsReported ==
    \A c \in Callers :
        dpc[c] = "done" /\ call[c].job_id # None
            => res[c].job_id = call[c].job_id

\* The duplicate check of the call's handler matches.
DuplicateMatch(c) ==
    IF call[c].entry = "add_package_to_graph"
    THEN package_indexed(call[c].package_name)
    ELSE already_indexed(call[c].path_obj)

\* C7: in each handler, a call whose duplicate check matches returns the
\* non-success mapping and has called neither the estimator nor create_job
\* nor update_job, has submitted nothing and has started no clone.
C7_DuplicateHasNoSideEffects ==
    \A c \in Callers :
        /\ ListerAnswered(c) /\ DuplicateMatch(c) =>
              dpc[c] = "done" /\ res[c].kind = "duplicate"
        /\ res[c].kind = "duplicate" => NoSideEffects(c)

\* An add_package_to_graph call and an index_repository call both ended as
\* duplicates.
C7_Witness ==
    \E c, d \in Callers :
        /\ call[c].entry = "add_package_to_graph" /\ res[c].kind = "duplicate"
        /\ call[d].entry = "index_repository" /\ res[d].kind = "duplicate"

\* C8: an add_code_to_graph call for a directory that the lister lists,
\* under whatever spelling of its path, is a duplicate and creates no job:
\* the paths are compared in their resolved form.
C8_DuplicateByResolvedPath ==
    \A c \in Callers :
        /\ call[c].entry = "add_code_to_graph"
        /\ ListerAnswered(c)
        /\ \E repo \in listed : resolve(repo.path) = resolve(call[c].path)
        => /\ dpc[c] = "done"
           /\ res[c].kind = "duplicate"
           /\ NoSideEffects(c)

\* The directory is listed as /workspace/lnk, a symbolic link to it, and
\* the call names it ./app.
C8_Witness ==
    \E c \in Callers :
        /\ call[c].entry = "add_code_to_graph"
        /\ call[c].path = RelPath(<<".", "app">>)
        /\ listed = {Repo(AbsPath(<<"workspace", "lnk">>), "lnk", FALSE)}
        /\ res[c].kind = "duplicate"

\* C9: an add_package_to_graph call whose package lies at the resolved path
\* of a listed repository, whatever that repository's name and
\* is_dependency flag, is a duplicate and creates no job.
C9_PackageDuplicateByPath ==
    \A c \in Callers :
        /\ call[c].entry = "add_package_to_graph"
        /\ call[c].path_obj.given
        /\ \E repo \in listed : resolve(repo.path) = resolve(call[c].path_obj)
        => /\ call[c].job_id = None
           /\ res[c].kind # "success"

\* C10: with GIT_TOKEN set, the error text of an index_repository call whose
\* clone failed does not contain the token; the text of a timeout names the
\* timeout and the URL as the caller wrote it.
C10_NoTokenInCloneError ==
    \A c \in Callers :
        dpc[c] = "done" /\ res[c].kind = "error" /\ Invoked(c, "git_clone")
            => /\ git_token # <<>> => ~Contains(res[c].text, git_token)
               /\ res[c].why = "clone timed out" =>
                    /\ Contains(res[c].text, <<ToString(CloneTimeout)>>)
                    /\ Contains(res[c].text, UrlText(call[c].url))

\* git named the URL it was given, token and all, and the text returned
\* shows the marker in the token's place.
C10_Witness ==
    \E c \in Callers :
        /\ dpc[c] = "done"
        /\ git_token # <<>>
        /\ res[c].why = "clone failed"
        /\ Contains(res[c].text, <<"://">> \o Marker \o <<"@">>)

\* The clone of the call exited non-zero, or subprocess.run raised (the
\* timeout among the exceptions it raises).
CloneFailed(c) ==
    \E i \in DOMAIN trace[c] :
        /\ trace[c][i] = "git_clone"
        /\ i < Len(trace[c])
        /\ trace[c][i + 1] \in {"nonzero", "raised"}

\* C11: an index_repository call whose clone failed (non-zero exit or
\* timeout) has ended with an error mapping and created no job: it has called
\* neither the estimator nor create_job nor update_job and submitted nothing.
C11_CloneFailureCreatesNoJob ==
    \A c \in Callers :
        CloneFailed(c) =>
            /\ dpc[c] = "done"
            /\ res[c].kind = "error"
            /\ call[c].job_id = None
            /\ \A name \in SideEffects \ {"git_clone"} : ~Invoked(c, name)

\* One caller's clone exited non-zero and the other's timed out.
C11_Witness ==
    \E c, d \in Callers :
        /\ CloneFailed(c) /\ res[c].why = "clone failed"
        /\ CloneFailed(d) /\ res[d].why = "clone timed out"
        /\ jobs = 0

\* C12: a handler call whose submission returned has ended, with the success
\* mapping that names its job, in that very step, whatever the event loop
\* has done with the work; and every call that has come to its submission
\* ends, also when the event loop never runs anything.
C12_SubmissionDoesNotWait ==
    /\ [](\A c \in Callers :
            Invoked(c, "submit") /\ ~Raised(c) =>
                /\ dpc[c] = "done"
                /\ res[c].kind = "success"
                /\ res[c].job_id = call[c].job_id)
    /\ \A c \in Callers :
          (dpc[c] \in {"ac_submit", "ap_submit", "ir_submit"})
              ~> (dpc[c] = "done")

\* The call has returned success for job 2 while the event loop has not
\* started its work and has not finished the work of job 1.
C12_Witness ==
    \E c \in Callers :
        /\ dpc[c] = "done"
        /\ res[c].kind = "success"
        /\ res[c].job_id = 2
        /\ loop[2] = "scheduled"
        /\ loop[1] = "running"

\* C13: an add_code_to_graph call for a path that does not exist returns
\* the path_not_found mapping, having resolved the path and called nothing
\* else: not the lister, not the estimator, not the job store, no submission.
C13_MissingPathCallsNothing ==
    \A c \in Callers :
        /\ call[c].entry = "add_code_to_graph"
        /\ call[c].path.given
        /\ resolve(call[c].path).parts \notin Directories
        => /\ dpc[c] = "done"
           /\ res[c].kind = "path_not_found"
           /\ trace[c] = <<"resolve">>
           /\ call[c].job_id = None

\* The call for /nowhere has returned while the other caller's call has
\* created a job.
C13_Witness ==
    \E c \in Callers :
        /\ call[c].path = AbsPath(<<"nowhere">>)
        /\ res[c].kind = "path_not_found"
        /\ jobs = 1

(***************************************************************************)
(* The configuration's properties.                                         *)
(***************************************************************************)
\* What the environment is meant to configure, read off the tables of
\* cases.
HostGiven == environ.FALKORDB_HOST \notin {Nil, Some("")}

GivenPort ==
    CHOOSE x \in PortCases : Some(x.text) = environ.FALKORDB_PORT

PortGood ==
    \/ environ.FALKORDB_PORT = Nil
    \/ GivenPort.numeric /\ 1 <= GivenPort.value /\ GivenPort.value <= 65535

SslOn ==
    /\ environ.FALKORDB_SSL # Nil
    /\ (CHOOSE x \in SslCases : Some(x.text) = environ.FALKORDB_SSL).on

\* C14: test_connection returns a pair and never raises: (False, reason)
\* without the client library, without a host, with a port that is not a
\* number and when the connect or the probe fails; (True, None) only when
\* the fresh connect and the probe succeeded.
C14_TestConnectionNeverRaises ==
    ret.op = "test_connection" =>
        /\ ret.out = "return"
        /\ ret.ok => ret.error = Nil /\ ret.kwargs # <<>>
        /\ ~ret.ok => ret.error # Nil

\* C15: without the client library every get_driver call raises
\* ValueError("FalkorDB client missing."), the constructor is never called
\* and no handle is cached.
C15_MissingLibraryIsDistinct ==
    ~falkordb_installed =>
        /\ ctorCalls = 0
        /\ driver = None
        /\ graph = None
        /\ \A t \in Threads :
              pc[t] = "done" /\ rec[t].op = "get_driver" =>
                  rec[t].out = "ValueError" /\ ~rec[t].ctor

\* Every thread's get_driver call has raised the ValueError.
C15_Witness ==
    /\ ~falkordb_installed
    /\ \A t \in Threads :
          pc[t] = "done" /\ rec[t].op = "get_driver"
              /\ rec[t].out = "ValueError"

\* C16: validate_config returns (True, None) for a host with an unset port
\* or a port that is an integer in 1..65535; (False, message) with the
\* offending port in the message for any other port; and (False, message
\* naming FALKORDB_HOST) without a host.
C16_ValidateConfig ==
    ret.op = "validate_config" =>
        /\ ret.out = "return"
        /\ ~HostGiven =>
              /\ ~ret.ok
              /\ ret.error # Nil
              /\ Contains(ret.error[1], <<"FALKORDB_HOST">>)
        /\ HostGiven /\ PortGood => ret.ok /\ ret.error = Nil
        /\ HostGiven /\ ~PortGood =>
              /\ ~ret.ok
              /\ ret.error # Nil
              /\ Contains(ret.error[1],
                          IF GivenPort.numeric THEN str(GivenPort.value)
                          ELSE GivenPort.text)

\* Port 0 of a given host has been refused.
C16_Witness ==
    /\ ret.op = "validate_config"
    /\ HostGiven
    /\ environ.FALKORDB_PORT = Some(<<"0">>)
    /\ ~ret.ok

\* C17: the keyword arguments of get_driver's constructor call are host and
\* port, and password, username and ssl each exactly when it is set (a
\* non-empty password or user name, ssl on), each with its value; nothing
\* else.
C17_ConstructorArguments ==
    \A t \in Threads :
        rec[t].ctor =>
            LET k == rec[t].kwargs
                password == environ.FALKORDB_PASSWORD
                username == environ.FALKORDB_USERNAME
            IN  /\ DOMAIN k =
                      {"host", "port"}
                      \cup (IF password \in {Nil, Some("")}
                            THEN {} ELSE {"password"})
                      \cup (IF username \in {Nil, Some("")}
                            THEN {} ELSE {"username"})
                      \cup (IF SslOn THEN {"ssl"} ELSE {})
                /\ k["host"] = IF environ.FALKORDB_HOST = Nil
                               THEN "localhost"
                               ELSE environ.FALKORDB_HOST[1]
                /\ k["port"] = IF environ.FALKORDB_PORT = Nil THEN 6379
                               ELSE GivenPort.value
                /\ "password" \in DOMAIN k => k["password"] = password[1]
                /\ "username" \in DOMAIN k => k["username"] = username[1]
                /\ "ssl" \in DOMAIN k => k["ssl"] = TRUE

\* With an empty password, no user name and ssl off the constructor was
\* called with host and port alone.
C17_Witness ==
    \E t \in Threads :
        /\ rec[t].ctor
        /\ environ.FALKORDB_PASSWORD = Some("")
        /\ environ.FALKORDB_SSL = Some(<<"n", "o">>)
        /\ DOMAIN rec[t].kwargs = {"host", "port"}

\* C19: FALKORDB_SSL is on for "true", "True", "TRUE", "1", "yes" and "YES"
\* and off for "false", "0", "no", "" and when unset, in the manager's ssl
\* attribute and in the constructor call of test_connection.
C19_SslParsing ==
    /\ self.initialized => self.ssl = SslOn
    /\ ret.op = "test_connection" /\ ret.out = "return" /\ ret.kwargs # <<>>
          => ("ssl" \in DOMAIN ret.kwargs) = SslOn

\* FALKORDB_SSL=YES has switched ssl on in the manager and in
\* test_connection's connect.
C19_Witness ==
    /\ environ.FALKORDB_SSL = Some(<<"Y", "E", "S">>)
    /\ self.ssl
    /\ ret.op = "test_connection"
    /\ ret.ok
    /\ "ssl" \in DOMAIN ret.kwargs

\* C18: close_driver never raises and leaves both handles None, from a
\* manager that never connected, that is connected or that is closed; a
\* close_driver call that follows a close_driver call finds both handles
\* None and leaves them so.
C18_CloseIsIdempotent ==
    \A t \in Threads :
        /\ pc[t] = "done" /\ rec[t].op = "close_driver" =>
              rec[t].out = "return" /\ driver = None /\ graph = None
        /\ justClosed /\ rec[t].op = "close_driver" =>
              driver = None /\ graph = None

\* A second close_driver in a row has returned, in a process that never
\* connected.
C18_Witness ==
    \E t \in Threads :
        /\ justClosed
        /\ Returned(t, "close_driver")
        /\ ctorCalls = 0

\* C20: a get_driver call that returns, in whatever interleaving with other
\* get_driver calls, returns a wrapper of a graph handle that is not None.
C20_ReturnedWrapperHasGraph ==
    \A t \in Threads :
        Returned(t, "get_driver") => rec[t].wrapped # None

\* C21: the cached handles are cleared only with the lock free: no step
\* sets _driver or _graph to None while a thread holds the lock of
\* get_driver's construction.
C21_CloseUnderTheLock ==
    [][(\/ driver # None /\ driver' = None
        \/ graph # None /\ graph' = None) => lock = None]_vars

\* In the call, collaborator a was called and returned before collaborator
\* b was called, if b was called at all.
Follows(c, a, b) ==
    Invoked(c, b) =>
        \E i, j \in DOMAIN trace[c] :
            /\ i < j
            /\ trace[c][i] = a
            /\ trace[c][i + 1] # "raised"
            /\ trace[c][j] = b

\* C22: within a handler call the lister has answered, without a match,
\* before the estimator and create_job are called; create_job has returned
\* before update_job is called; update_job has returned before the work is
\* built and submitted.
C22_StepsInOrder ==
    \A c \in Callers :
        /\ Follows(c, "list_repos", "estimate")
        /\ Invoked(c, "estimate") => ~DuplicateMatch(c)
        /\ Follows(c, "estimate", "create_job")
        /\ Follows(c, "create_job", "update_job")
        /\ Follows(c, "update_job", "build_coro")
        /\ Follows(c, "build_coro", "submit")

\* An add_package_to_graph call has gone through all its steps.
C22_Witness ==
    \E c \in Callers :
        /\ res[c].kind = "success"
        /\ trace[c] = <<"list_repos", "get_local_package_path", "estimate",
                        "create_job", "update_job", "build_coro", "submit">>

\* C23: index_repository starts the clone only for a url that gives a
\* repository name and after the lister has answered with no entry at the
\* resolved clone directory; a call without url, a url without a name and a
\* duplicate each return their mapping with no clone started.
C23_CloneOnlyAfterChecks ==
    \A c \in Callers :
        call[c].entry = "index_repository" =>
            /\ Invoked(c, "git_clone") =>
                  /\ call[c].url.given
                  /\ repo_name(call[c].url) # ""
                  /\ ListerAnswered(c)
                  /\ \A repo \in listed :
                        resolve(repo.path) #
                            resolve(AbsPath(<<"workspace",
                                              repo_name(call[c].url)>>))
            /\ ~call[c].url.given =>
                  res[c].why = "url required" /\ trace[c] = <<>>
            /\ call[c].url.given /\ repo_name(call[c].url) = "" =>
                  res[c].why = "no repository name" /\ trace[c] = <<>>
            /\ res[c].kind = "duplicate" => ~Invoked(c, "git_clone")

\* One call has ended for want of a name and another as a duplicate of
\* the directory listed through a symbolic link.
C23_Witness ==
    \E c, d \in Callers :
        /\ call[c].entry = "index_repository"
        /\ res[c].why = "no repository name"
        /\ call[d].entry = "index_repository"
        /\ res[d].kind = "duplicate"
        /\ listed = {Repo(AbsPath(<<"workspace", "lnk">>), "lnk", FALSE)}

\* How often the call has called collaborator name.
Times(c, name) == Cardinality({i \in DOMAIN trace[c] : trace[c][i] = name})

\* C24: a call that returns success has created one job and submitted one
\* unit of work; the work was built from the path and the is_dependency
\* flag that create_job was called with and from the job id that create_job
\* returned, which is the job id of the mapping returned; no other call
\* returns that job id.
C24_SuccessIsOneJobOneSubmission ==
    \A c \in Callers :
        res[c].kind = "success" =>
            /\ Times(c, "create_job") = 1
            /\ Times(c, "submit") = 1
            /\ call[c].job_id \in 1..jobs
            /\ res[c].job_id = call[c].job_id
            /\ call[c].coro.job_id = call[c].job_id
            /\ call[c].coro.path = call[c].job_path
            /\ call[c].coro.path.given
            /\ call[c].coro.is_dependency = call[c].job_dep
            /\ loop[call[c].job_id] # "none"
            /\ \A d \in Callers \ {c} :
                  res[d].kind = "success" => res[d].job_id # res[c].job_id

\* Both callers hold a success mapping: one for ./app, indexed as a
\* dependency, and one for a package.
C24_Witness ==
    \E c, d \in Callers :
        /\ res[c].kind = "success"
        /\ call[c].path = RelPath(<<".", "app">>)
        /\ call[c].coro.is_dependency
        /\ res[d].kind = "success"
        /\ call[d].entry = "add_package_to_graph"

\* C25: atexit.register(self.shutdown) is called at most once, and it has
\* been called once whenever a FalkorDBRemoteManager() has returned and no
\* thread is inside the constructor.
C25_ShutdownRegisteredOnce ==
    /\ atexit_hooks <= 1
    /\ (/\ \A t \in Threads : pc[t] \in {"idle", "done"}
        /\ \E t \in Threads : rec[t].op = "FalkorDBRemoteManager"
                                /\ rec[t].out = "return")
       => atexit_hooks = 1

\* C26: a call of validate_config or test_connection leaves _driver and
\* _graph as they were, whatever it returns or raises; validate_config
\* calls no FalkorDB constructor, and the connection test_connection makes
\* is none of the cached handles.
C26_StaticMethodsKeepTheCache ==
    [][(ret.op = "none" /\ ret'.op # "none") =>
          /\ driver' = driver
          /\ graph' = graph
          /\ ctorCalls' = ctorCalls
          /\ ret'.op = "validate_config" =>
                ret'.kwargs = <<>> /\ ret'.db = None
          /\ ret'.db # None => ret'.db # driver' /\ ret'.db # graph']_vars

\* test_connection has connected and probed while the manager holds a
\* connection and a graph of its own.
C26_Witness ==
    /\ ret.op = "test_connection"
    /\ ret.ok
    /\ ret.db # None
    /\ driver # None
    /\ graph # None
    /\ \A t \in Threads : pc[t] = "idle"

\* The call is past create_job and has not returned yet.
JobInHand(c) ==
    /\ dpc[c] \in {"ac_update", "ac_submit", "ir_update", "ir_submit"}
    /\ call[c].job_id # None

\* C27: two add_code_to_graph calls, or two index_repository calls, that
\* are in progress at the same time for the same resolved path, a path the
\* lister does not list, have not both created a job.
C27_OneJobPerPath ==
    \A c \in Callers : \A d \in Callers \ {c} :
        (/\ call[c].entry = call[d].entry
         /\ call[c].entry \in {"add_code_to_graph", "index_repository"}
         /\ call[c].path_obj = call[d].path_obj
         /\ ~already_indexed(call[c].path_obj))
        => ~(JobInHand(c) /\ JobInHand(d))

\* C28: no step of an is_connected call changes _driver or _graph or
\* constructs a connection; and when the last call was an is_connected that
\* returned False because its probe raised, _driver and _graph are still
\* set, and a get_driver that follows returns a wrapper of the graph that
\* was probed, without constructing a connection.
C28_IsConnectedKeepsHandles ==
    /\ [][\A t \in Threads :
            (rec'[t] # rec[t] /\ rec'[t].op = "is_connected") =>
               /\ driver' = driver
               /\ graph' = graph
               /\ ctorCalls' = ctorCalls]_vars
    /\ [](probeFailed # None =>
            /\ Quiescent => driver # None /\ graph = probeFailed
            /\ \A t \in Threads :
                  pc[t] = "done" /\ rec[t].op = "get_driver" =>
                     /\ rec[t].out = "return"
                     /\ rec[t].wrapped = probeFailed
                     /\ ~rec[t].ctor)

\* A get_driver has returned right after an is_connected whose probe
\* raised.
C28_Witness ==
    \E t \in Threads :
        /\ probeFailed # None
        /\ Returned(t, "get_driver")
        /\ rec[t].wrapped = probeFailed
        /\ ctorCalls = 1

=============================================================================
